---- MODULE Spec2Model ----
(***************************************************************************)
(* Model of fakestun.py: a UDP responder that answers STUN Binding         *)
(* Requests with a Binding Response built from static configuration and    *)
(* the observed sender address.                                            *)
(*                                                                         *)
(* Byte strings are sequences of integers 0..255.  Python strings are      *)
(* sequences of one-character strings (addresses) or of code points        *)
(* (attribute text).  Python's None is NoneIP for an address and NonePort  *)
(* for a port; both make serialisation raise, as None does.                *)
(***************************************************************************)
EXTENDS Integers, Sequences, FiniteSets, TLC

VARIABLES
    cfg,            \* the module-level configuration (lines 10-26)
    pc,             \* position of startServer
    err,            \* name of the exception that ended the program, or "none"
    listenIpPacked, \* startServer local, line 125
    data,           \* startServer local: datagram returned by recvfrom
    addr,           \* startServer local: sender returned by recvfrom
    tid,            \* ResponseMessage.__messageTransactionID
    attributes,     \* ResponseMessage.__attributes
    binary,         \* last value returned by ResponseMessage.getBinary
    sent,           \* log of sock.sendto calls: bytes and destination, each
                    \* with the recvfrom result that was being handled
    received,       \* number of datagrams returned by recvfrom so far
    dropped         \* number of datagrams that took the else branch (line 170)

vars == <<cfg, pc, err, listenIpPacked, data, addr, tid, attributes, binary,
          sent, received, dropped>>

----------------------------------------------------------------------------
(* Bounds *)

MaxRequests == 2
MaxAttributes == 2

----------------------------------------------------------------------------
(* Program constants *)

BINDING_RESPONSE == 257
TYPE_MAPPED_ADDRESS == 1
TYPE_SOURCE_ADDRESS == 4
TYPE_CHANGED_ADDRESS == 5
TYPE_SERVER == 32802

\* "Fake response with static hard-coded IP address" as code points
ServerText ==
    <<70, 97, 107, 101, 32, 114, 101, 115, 112, 111, 110, 115, 101, 32, 119,
      105, 116, 104, 32, 115, 116, 97, 116, 105, 99, 32, 104, 97, 114, 100,
      45, 99, 111, 100, 101, 100, 32, 73, 80, 32, 97, 100, 100, 114, 101,
      115, 115>>

NoneIP == <<>>
NonePort == -1

----------------------------------------------------------------------------
(* Python helpers *)

Min(a, b) == IF a < b THEN a ELSE b

\* s[a:b] for 0 <= a <= b: never raises, shorter when s is short
Slice(s, a, b) == SubSeq(s, a + 1, Min(b, Len(s)))

RECURSIVE Join(_)
Join(ss) == IF ss = <<>> THEN <<>> ELSE Head(ss) \o Join(Tail(ss))

\* number.to_bytes(2, 'big', signed=False) raises OverflowError outside 0..65535
UInt16Fits(number) == number \in 0..65535

UInt8ToBytes(number) == <<number % 256>>

UInt16ToBytes(number) == <<(number \div 256) % 256, number % 256>>

UInt32ToBytes(number) ==
    <<(number \div 16777216) % 256, (number \div 65536) % 256,
      (number \div 256) % 256, number % 256>>

\* str.encode("utf-8") of one code point
Utf8Char(cp) ==
    IF cp < 128 THEN <<cp>>
    ELSE IF cp < 2048 THEN <<192 + (cp \div 64), 128 + (cp % 64)>>
    ELSE IF cp < 65536
         THEN <<224 + (cp \div 4096), 128 + ((cp \div 64) % 64),
                128 + (cp % 64)>>
    ELSE <<240 + (cp \div 262144), 128 + ((cp \div 4096) % 64),
           128 + ((cp \div 64) % 64), 128 + (cp % 64)>>

RECURSIVE Utf8Encode(_)
Utf8Encode(text) ==
    IF text = <<>> THEN <<>> ELSE Utf8Char(Head(text)) \o Utf8Encode(Tail(text))

----------------------------------------------------------------------------
(* ipaddress.IPv4Address(s).packed *)

Digits == <<"0", "1", "2", "3", "4", "5", "6", "7", "8", "9">>

IsDigit(c) == \E i \in 1..10 : Digits[i] = c

DigitVal(c) == (CHOOSE i \in 1..10 : Digits[i] = c) - 1

\* str.split('.')
RECURSIVE SplitDots(_, _, _)
SplitDots(s, cur, acc) ==
    IF s = <<>> THEN Append(acc, cur)
    ELSE IF Head(s) = "." THEN SplitDots(Tail(s), <<>>, Append(acc, cur))
    ELSE SplitDots(Tail(s), Append(cur, Head(s)), acc)

RECURSIVE DecValue(_, _)
DecValue(s, acc) ==
    IF s = <<>> THEN acc ELSE DecValue(Tail(s), 10 * acc + DigitVal(Head(s)))

OctetOk(o) ==
    /\ o # <<>>
    /\ \A i \in 1..Len(o) : IsDigit(o[i])
    /\ Len(o) <= 3
    /\ (o # <<"0">> => o[1] # "0")
    /\ DecValue(o, 0) <= 255

\* FALSE where IPv4Address(s) raises AddressValueError
IPv4Valid(s) ==
    /\ s # <<>>
    /\ \A i \in 1..Len(s) : s[i] # "/"
    /\ LET octets == SplitDots(s, <<>>, <<>>) IN
         /\ Len(octets) = 4
         /\ \A i \in 1..4 : OctetOk(octets[i])

IPv4Packed(s) ==
    LET octets == SplitDots(s, <<>>, <<>>) IN
    [i \in 1..4 |-> DecValue(octets[i], 0)]

----------------------------------------------------------------------------
(* Attribute, IPv4AddressAndPortAttribute, TextAttribute, ResponseMessage *)

IPv4AddressAndPortAttribute(attributeType, ip, port) ==
    [kind |-> "addr", type |-> attributeType, ip |-> ip, port |-> port,
     text |-> <<>>]

TextAttribute(attributeType, text) ==
    [kind |-> "text", type |-> attributeType, ip |-> NoneIP, port |-> NonePort,
     text |-> text]

\* TRUE where getAttributeValue raises (OverflowError, or TypeError on None)
AttributeValueRaises(a) ==
    a.kind = "addr" /\ (~UInt16Fits(a.port) \/ a.ip = NoneIP)

getAttributeValue(a) ==
    IF a.kind = "addr"
    THEN UInt16ToBytes(1) \o UInt16ToBytes(a.port) \o a.ip
    ELSE Utf8Encode(a.text) \o <<0>>

AttributeRaises(a) ==
    \/ AttributeValueRaises(a)
    \/ ~UInt16Fits(a.type)
    \/ ~UInt16Fits(Len(getAttributeValue(a)))

AttributeGetBinary(a) ==
    LET attributeValue == getAttributeValue(a) IN
    UInt16ToBytes(a.type) \o UInt16ToBytes(Len(attributeValue)) \o attributeValue

\* mutation: insert(0, attribute) instead of append(attribute)
addAttribute_Prepend(attrs, attribute) == <<attribute>> \o attrs

addAttribute(attrs, attribute) == Append(attrs, attribute)

AttributesBinary(attrs) ==
    Join([i \in 1..Len(attrs) |-> AttributeGetBinary(attrs[i])])

GetBinaryRaises(messageType, messageTransactionID, attrs) ==
    \/ \E i \in 1..Len(attrs) : AttributeRaises(attrs[i])
    \/ ~UInt16Fits(messageType)
    \/ ~UInt16Fits(Len(AttributesBinary(attrs)))

\* mutation: the length field also counts the transaction identifier
GetBinary_LengthWithTid(messageType, messageTransactionID, attrs) ==
    LET attributesBinary == AttributesBinary(attrs) IN
    UInt16ToBytes(messageType)
        \o UInt16ToBytes(Len(messageTransactionID) + Len(attributesBinary))
        \o messageTransactionID \o attributesBinary

GetBinary(messageType, messageTransactionID, attrs) ==
    LET attributesBinary == AttributesBinary(attrs) IN
    UInt16ToBytes(messageType) \o UInt16ToBytes(Len(attributesBinary))
        \o messageTransactionID \o attributesBinary

----------------------------------------------------------------------------
(* getConfigurationIpAndPort *)

\* mutation: bothConfigured is cleared on every path
getConfigurationIpAndPort_NeverBoth(ip, port, defaultIP, defaultPort) ==
    LET ipSet == ip # <<>>
        portSet == ~(port < 0)
    IN [raises |-> ipSet /\ ~IPv4Valid(ip),
        ip |-> IF ipSet
               THEN (IF IPv4Valid(ip) THEN IPv4Packed(ip) ELSE NoneIP)
               ELSE defaultIP,
        port |-> IF portSet THEN port ELSE defaultPort,
        bothConfigured |-> FALSE]

\* mutation: "if port <= 0" instead of "if port < 0"
getConfigurationIpAndPort_PortLeqZero(ip, port, defaultIP, defaultPort) ==
    LET ipSet == ip # <<>>
        portSet == ~(port <= 0)
    IN [raises |-> ipSet /\ ~IPv4Valid(ip),
        ip |-> IF ipSet
               THEN (IF IPv4Valid(ip) THEN IPv4Packed(ip) ELSE NoneIP)
               ELSE defaultIP,
        port |-> IF portSet THEN port ELSE defaultPort,
        bothConfigured |-> ipSet /\ portSet]

getConfigurationIpAndPort(ip, port, defaultIP, defaultPort) ==
    LET ipSet == ip # <<>>
        portSet == ~(port < 0)
    IN [raises |-> ipSet /\ ~IPv4Valid(ip),
        ip |-> IF ipSet
               THEN (IF IPv4Valid(ip) THEN IPv4Packed(ip) ELSE NoneIP)
               ELSE defaultIP,
        port |-> IF portSet THEN port ELSE defaultPort,
        bothConfigured |-> ipSet /\ portSet]

----------------------------------------------------------------------------
(* Inputs: configurations, datagrams and senders *)

Addr0 == <<"0", ".", "0", ".", "0", ".", "0">>
AddrA == <<"2", "0", "3", ".", "0", ".", "1", "1", "3", ".", "9">>
AddrB == <<"1", "9", "8", ".", "5", "1", ".", "1", "0", "0", ".", "7">>
AddrC == <<"1", "9", "2", ".", "0", ".", "2", ".", "3", "3">>
AddrBad == <<"9", "9", "9", ".", "1", ".", "1", ".", "1">>

\* configured address strings: unset, valid, not an IPv4 address
OverrideIPs == {<<>>, AddrB, AddrBad}
\* configured ports below: unset (-1), in range, one past the 16-bit range

\* (address, port) pairs configured for SOURCE-ADDRESS: unset, both set
SourceOverrides == { <<<<>>, -1>>, <<AddrC, 3479>> }

Configs ==
    { [LISTEN_IP |-> l, LISTEN_PORT |-> 3478,
       RESPONSE_MAPPED_IP |-> mi, RESPONSE_MAPPED_PORT |-> mp,
       RESPONSE_SOURCE_IP |-> so[1], RESPONSE_SOURCE_PORT |-> so[2],
       RESPONSE_CHANGED_IP |-> ci, RESPONSE_CHANGED_PORT |-> cp] :
      l \in {<<>>, Addr0},
      mi \in OverrideIPs, mp \in {-1, 0, 65536},
      so \in SourceOverrides,
      ci \in OverrideIPs, cp \in {-1, 40000, 65536} }

DefaultConfig ==
    [LISTEN_IP |-> <<>>, LISTEN_PORT |-> 3478,
     RESPONSE_MAPPED_IP |-> <<>>, RESPONSE_MAPPED_PORT |-> -1,
     RESPONSE_SOURCE_IP |-> <<>>, RESPONSE_SOURCE_PORT |-> -1,
     RESPONSE_CHANGED_IP |-> <<>>, RESPONSE_CHANGED_PORT |-> -1]

TidCount == [i \in 1..16 |-> 16 * i - 1]

\* datagrams recvfrom may return (at most 1024 bytes each)
Datagrams ==
    { <<0, 1, 0, 4>> \o TidCount \o <<0, 3, 0, 0>>, \* Binding Request
      <<0, 1, 0, 0>> \o SubSeq(TidCount, 1, 5), \* cut inside the transaction id
      <<0, 1>>,                               \* type code only
      <<0, 2, 0, 0>> \o TidCount,             \* Shared Secret Request
      <<1, 1, 0, 0>> \o TidCount,             \* Binding Response
      <<0>>,                                  \* one byte
      <<>> }                                  \* empty datagram

\* (host, port) pairs recvfrom may report
Senders == { <<AddrA, 54321>>, <<AddrC, 40000>> }

----------------------------------------------------------------------------
(* startServer *)

Init ==
    /\ cfg \in Configs
    /\ pc = "start"
    /\ err = "none"
    /\ listenIpPacked = NoneIP
    /\ data = <<>>
    /\ addr = <<Addr0, 0>>
    /\ tid = <<>>
    /\ attributes = <<>>
    /\ binary = <<>>
    /\ sent = <<>>
    /\ received = 0
    /\ dropped = 0

Raise(e) ==
    /\ pc' = "crashed"
    /\ err' = e

\* lines 125-130
Start ==
    /\ pc = "start"
    /\ IF IPv4Valid(cfg.LISTEN_IP)
       THEN /\ listenIpPacked' = IPv4Packed(cfg.LISTEN_IP)
            /\ pc' = "recv"
            /\ err' = err
       ELSE /\ Raise("AddressValueError")
            /\ listenIpPacked' = listenIpPacked
    /\ UNCHANGED <<cfg, data, addr, tid, attributes, binary, sent, received,
                   dropped>>

\* line 133
Receive ==
    /\ pc = "recv"
    /\ received < MaxRequests
    /\ \E d \in Datagrams, a \in Senders :
         /\ data' = d
         /\ addr' = a
    /\ received' = received + 1
    /\ pc' = "dispatch"
    /\ UNCHANGED <<cfg, err, listenIpPacked, tid, attributes, binary, sent,
                   dropped>>

\* mutation: only the low byte of the type code is compared
IsBindingRequest_LowByte(d) == Slice(d, 1, 2) = UInt8ToBytes(1)

\* line 134: data[0:2] == UInt16ToBytes(1)
IsBindingRequest(d) == Slice(d, 0, 2) = UInt16ToBytes(1)

\* lines 134-137
Recognize ==
    /\ pc = "dispatch"
    /\ IsBindingRequest(data)
    /\ tid' = Slice(data, 4, 20)
    /\ attributes' = <<>>
    /\ pc' = "mapped"
    /\ UNCHANGED <<cfg, err, listenIpPacked, data, addr, binary, sent,
                   received, dropped>>

\* lines 169-170
Ignore ==
    /\ pc = "dispatch"
    /\ ~IsBindingRequest(data)
    /\ dropped' = dropped + 1
    /\ pc' = "recv"
    /\ UNCHANGED <<cfg, err, listenIpPacked, data, addr, tid, attributes,
                   binary, sent, received>>

\* mutation: the SOURCE-ADDRESS defaults are passed for MAPPED-ADDRESS
AddMappedAddress_ListenDefaults ==
    /\ pc = "mapped"
    /\ LET r == getConfigurationIpAndPort(
                    cfg.RESPONSE_MAPPED_IP, cfg.RESPONSE_MAPPED_PORT,
                    listenIpPacked, cfg.LISTEN_PORT)
       IN IF r.raises
          THEN /\ Raise("AddressValueError")
               /\ attributes' = attributes
          ELSE /\ attributes' = addAttribute(attributes,
                     IPv4AddressAndPortAttribute(TYPE_MAPPED_ADDRESS,
                                                 r.ip, r.port))
               /\ pc' = "source"
               /\ err' = err
    /\ UNCHANGED <<cfg, listenIpPacked, data, addr, tid, binary, sent,
                   received, dropped>>

\* lines 140-145
AddMappedAddress ==
    /\ pc = "mapped"
    /\ LET r == getConfigurationIpAndPort(
                    cfg.RESPONSE_MAPPED_IP, cfg.RESPONSE_MAPPED_PORT,
                    IPv4Packed(addr[1]), addr[2])
       IN IF r.raises
          THEN /\ Raise("AddressValueError")
               /\ attributes' = attributes
          ELSE /\ attributes' = addAttribute(attributes,
                     IPv4AddressAndPortAttribute(TYPE_MAPPED_ADDRESS,
                                                 r.ip, r.port))
               /\ pc' = "source"
               /\ err' = err
    /\ UNCHANGED <<cfg, listenIpPacked, data, addr, tid, binary, sent,
                   received, dropped>>

\* lines 148-153
AddSourceAddress ==
    /\ pc = "source"
    /\ LET r == getConfigurationIpAndPort(
                    cfg.RESPONSE_SOURCE_IP, cfg.RESPONSE_SOURCE_PORT,
                    listenIpPacked, cfg.LISTEN_PORT)
       IN IF r.raises
          THEN /\ Raise("AddressValueError")
               /\ attributes' = attributes
          ELSE /\ attributes' = addAttribute(attributes,
                     IPv4AddressAndPortAttribute(TYPE_SOURCE_ADDRESS,
                                                 r.ip, r.port))
               /\ pc' = "changed"
               /\ err' = err
    /\ UNCHANGED <<cfg, listenIpPacked, data, addr, tid, binary, sent,
                   received, dropped>>

\* lines 156-162
AddChangedAddress ==
    /\ pc = "changed"
    /\ LET r == getConfigurationIpAndPort(
                    cfg.RESPONSE_CHANGED_IP, cfg.RESPONSE_CHANGED_PORT,
                    NoneIP, NonePort)
       IN IF r.raises
          THEN /\ Raise("AddressValueError")
               /\ attributes' = attributes
          ELSE /\ attributes' =
                     IF r.bothConfigured
                     THEN addAttribute(attributes,
                              IPv4AddressAndPortAttribute(TYPE_CHANGED_ADDRESS,
                                                          r.ip, r.port))
                     ELSE attributes
               /\ pc' = "server"
               /\ err' = err
    /\ UNCHANGED <<cfg, listenIpPacked, data, addr, tid, binary, sent,
                   received, dropped>>

\* line 165
AddServer ==
    /\ pc = "server"
    /\ attributes' = addAttribute(attributes,
                                  TextAttribute(TYPE_SERVER, ServerText))
    /\ pc' = "send"
    /\ UNCHANGED <<cfg, err, listenIpPacked, data, addr, tid, binary, sent,
                   received, dropped>>

\* mutation: the response goes to the listen address instead of the sender
Send_ToListenAddress ==
    /\ pc = "send"
    /\ IF GetBinaryRaises(BINDING_RESPONSE, tid, attributes)
       THEN /\ Raise("OverflowError")
            /\ UNCHANGED <<binary, sent>>
       ELSE /\ binary' = GetBinary(BINDING_RESPONSE, tid, attributes)
            /\ sent' = Append(sent, [data |-> binary',
                                     addr |-> <<cfg.LISTEN_IP, cfg.LISTEN_PORT>>,
                                     seq |-> received,
                                     request |-> [data |-> data,
                                                  addr |-> addr]])
            /\ pc' = "recv"
            /\ err' = err
    /\ UNCHANGED <<cfg, listenIpPacked, data, addr, tid, attributes,
                   received, dropped>>

\* line 168
Send ==
    /\ pc = "send"
    /\ IF GetBinaryRaises(BINDING_RESPONSE, tid, attributes)
       THEN /\ Raise("OverflowError")
            /\ UNCHANGED <<binary, sent>>
       ELSE /\ binary' = GetBinary(BINDING_RESPONSE, tid, attributes)
            /\ sent' = Append(sent, [data |-> binary', addr |-> addr,
                                     seq |-> received,
                                     request |-> [data |-> data,
                                                  addr |-> addr]])
            /\ pc' = "recv"
            /\ err' = err
    /\ UNCHANGED <<cfg, listenIpPacked, data, addr, tid, attributes,
                   received, dropped>>

Next ==
    \/ Start
    \/ Receive
    \/ Recognize
    \/ Ignore
    \/ AddMappedAddress
    \/ AddSourceAddress
    \/ AddChangedAddress
    \/ AddServer
    \/ Send

Spec == Init /\ [][Next]_vars

----------------------------------------------------------------------------
(* ResponseMessage on its own: any sequence of attributes, then getBinary *)

PackedA == <<203, 0, 113, 9>>
PackedB == <<198, 51, 100, 7>>

MsgAttributes ==
    { IPv4AddressAndPortAttribute(TYPE_MAPPED_ADDRESS, PackedA, 54321),
      IPv4AddressAndPortAttribute(TYPE_CHANGED_ADDRESS, PackedB, 0),
      IPv4AddressAndPortAttribute(TYPE_SOURCE_ADDRESS, PackedB, 65536),
      TextAttribute(TYPE_SERVER, ServerText),
      TextAttribute(TYPE_SERVER, <<>>),
      TextAttribute(TYPE_SERVER, <<233, 8364, 128512>>) }

InitMsg ==
    /\ cfg = DefaultConfig
    /\ pc = "msg"
    /\ err = "none"
    /\ listenIpPacked = NoneIP
    /\ data = <<>>
    /\ addr = <<Addr0, 0>>
    /\ tid \in {TidCount, SubSeq(TidCount, 1, 5)}
    /\ attributes = <<>>
    /\ binary = <<>>
    /\ sent = <<>>
    /\ received = 0
    /\ dropped = 0

\* lines 99-100
MsgAddAttribute ==
    /\ pc = "msg"
    /\ Len(attributes) < MaxAttributes
    /\ \E a \in MsgAttributes : attributes' = addAttribute(attributes, a)
    /\ UNCHANGED <<cfg, pc, err, listenIpPacked, data, addr, tid, binary,
                   sent, received, dropped>>

\* lines 102-107
MsgGetBinary ==
    /\ pc = "msg"
    /\ IF GetBinaryRaises(BINDING_RESPONSE, tid, attributes)
       THEN /\ Raise("OverflowError")
            /\ binary' = binary
       ELSE /\ binary' = GetBinary(BINDING_RESPONSE, tid, attributes)
            /\ pc' = "msg_done"
            /\ err' = err
    /\ UNCHANGED <<cfg, listenIpPacked, data, addr, tid, attributes, sent,
                   received, dropped>>

NextMsg ==
    \/ MsgAddAttribute
    \/ MsgGetBinary

SpecMsg == InitMsg /\ [][NextMsg]_vars

----------------------------------------------------------------------------
(* Reading a message back, independently of the encoders above *)

U16(b, i) == 256 * b[i] + b[i + 1]

\* walk type(2) + length(2) + payload entries; ok iff the walk ends exactly
\* at the end of b
RECURSIVE Walk(_)
Walk(b) ==
    IF b = <<>> THEN [ok |-> TRUE, attrs |-> <<>>]
    ELSE IF Len(b) < 4 THEN [ok |-> FALSE, attrs |-> <<>>]
    ELSE LET n == U16(b, 3) IN
         IF Len(b) < 4 + n THEN [ok |-> FALSE, attrs |-> <<>>]
         ELSE LET rest == Walk(SubSeq(b, 5 + n, Len(b))) IN
              [ok |-> rest.ok,
               attrs |-> <<[type |-> U16(b, 1), value |-> SubSeq(b, 5, 4 + n)]>>
                         \o rest.attrs]

\* the message's last U16(m, 3) bytes, or everything after the 4-byte header
\* when the message is shorter than it declares
Declared(m) == Min(U16(m, 3), Len(m) - 4)

AttrSection(m) == SubSeq(m, Len(m) - Declared(m) + 1, Len(m))

\* what lies between the 4-byte header and the attributes
TidOf(m) == SubSeq(m, 5, Len(m) - Declared(m))

SentAttrs(i) == Walk(AttrSection(sent[i].data)).attrs

SentTypes(i) == [k \in 1..Len(SentAttrs(i)) |-> SentAttrs(i)[k].type]

AttrsOfType(i, t) ==
    LET as == SentAttrs(i)
        idx == {k \in 1..Len(as) : as[k].type = t}
    IN {as[k] : k \in idx}

CountOfType(i, t) ==
    Cardinality({k \in 1..Len(SentAttrs(i)) : SentAttrs(i)[k].type = t})

DecChars(n) ==
    IF n < 10 THEN <<Digits[n + 1]>>
    ELSE IF n < 100 THEN <<Digits[(n \div 10) + 1], Digits[(n % 10) + 1]>>
    ELSE <<Digits[(n \div 100) + 1], Digits[((n \div 10) % 10) + 1],
           Digits[(n % 10) + 1]>>

\* dotted-decimal text of 4 address bytes
ToDotted(b) ==
    DecChars(b[1]) \o <<".">> \o DecChars(b[2]) \o <<".">>
        \o DecChars(b[3]) \o <<".">> \o DecChars(b[4])

\* an address attribute payload carries exactly this address and port
Carries(value, ipString, port) ==
    /\ Len(value) = 8
    /\ U16(value, 1) = 1
    /\ U16(value, 3) = port
    /\ ToDotted(SubSeq(value, 5, 8)) = ipString

----------------------------------------------------------------------------
(* Properties *)

Handling == {"mapped", "source", "changed", "server", "send"}

ChangedConfigured ==
    cfg.RESPONSE_CHANGED_IP # <<>> /\ cfg.RESPONSE_CHANGED_PORT >= 0

MappedUnset ==
    cfg.RESPONSE_MAPPED_IP = <<>> /\ cfg.RESPONSE_MAPPED_PORT < 0

\* first two bytes are the big-endian 16-bit value 1
TypeCodeIsOne(d) == Len(d) >= 2 /\ d[1] = 0 /\ d[2] = 1

\* C1: a response that was sent contains a CHANGED-ADDRESS attribute (type 5)
\* if and only if RESPONSE_CHANGED_IP is non-empty and RESPONSE_CHANGED_PORT
\* is set (not negative); with one or none of them set there is none.
C1_ChangedIffBothConfigured ==
    \A i \in DOMAIN sent :
        (CountOfType(i, 5) > 0) <=> ChangedConfigured

C1_Witness ==
    \E i \in DOMAIN sent : CountOfType(i, 5) > 0 /\ ChangedConfigured

\* C2: with no MAPPED-ADDRESS override configured, the MAPPED-ADDRESS
\* attribute (type 1) of every response carries the 4-byte IPv4 address and
\* the port of the sender of the request it answers.
C2_MappedIsSender ==
    MappedUnset =>
        \A i \in DOMAIN sent :
            /\ CountOfType(i, 1) = 1
            /\ \A a \in AttrsOfType(i, 1) :
                   Carries(a.value, sent[i].request.addr[1],
                           sent[i].request.addr[2])

C2_Witness ==
    /\ MappedUnset
    /\ Len(sent) = 2
    /\ sent[1].request.addr # sent[2].request.addr

\* C3: a datagram whose first two bytes are not the 16-bit value 1 (shorter
\* datagrams included) is dropped: nothing is sent for it, no exception ends
\* the program, and the server is back at recvfrom with its configuration
\* and listen address untouched, so later requests are served as before.
C3_UnrecognizedDropped ==
    [][(pc = "dispatch" /\ ~TypeCodeIsOne(data)) =>
           /\ pc' = "recv"
           /\ sent' = sent
           /\ err' = "none"
           /\ cfg' = cfg
           /\ listenIpPacked' = listenIpPacked]_vars

\* the first datagram was dropped and the second one was answered
C3_Witness ==
    /\ received = 2
    /\ dropped = 1
    /\ Len(sent) = 1
    /\ sent[1].seq = 2

\* C4 as claimed: for every recognized request, whatever its length, the
\* response carries a 16-byte transaction identifier at bytes 4..19 that
\* equals bytes 4..19 of the request.
C4_TransactionIdSixteenBytes ==
    \A i \in DOMAIN sent :
        /\ Len(TidOf(sent[i].data)) = 16
        /\ Len(sent[i].request.data) >= 20
        /\ TidOf(sent[i].data) = SubSeq(sent[i].request.data, 5, 20)

Utf8Len(cp) ==
    IF cp < 128 THEN 1 ELSE IF cp < 2048 THEN 2 ELSE IF cp < 65536 THEN 3 ELSE 4

RECURSIVE TextBytes(_)
TextBytes(text) ==
    IF text = <<>> THEN 0 ELSE Utf8Len(Head(text)) + TextBytes(Tail(text))

\* byte length of the payload an attribute stands for
PayloadLen(a) == IF a.kind = "addr" THEN 8 ELSE TextBytes(a.text) + 1

\* C5: in every message getBinary returns, the header's 16-bit length field
\* equals the number of bytes after the header and transaction identifier,
\* and walking those bytes by the attributes' own length prefixes ends
\* exactly at the end of the message and yields, in order, each added
\* attribute's type and a payload of that attribute's actual length.
C5_LengthsRoundTrip ==
    pc = "msg_done" =>
        LET body == SubSeq(binary, 5 + Len(tid), Len(binary))
            w == Walk(body)
        IN /\ U16(binary, 3) = Len(body)
           /\ w.ok
           /\ Len(w.attrs) = Len(attributes)
           /\ \A k \in 1..Len(attributes) :
                  /\ w.attrs[k].type = attributes[k].type
                  /\ Len(w.attrs[k].value) = PayloadLen(attributes[k])

C5_Witness ==
    /\ pc = "msg_done"
    /\ Len(attributes) = 2
    /\ attributes[1].kind = "text"
    /\ TextBytes(attributes[1].text) > Len(attributes[1].text)
    /\ attributes[2].kind = "addr"

OverrideOk(ip) == ip = <<>> \/ IPv4Valid(ip)

\* C6 as claimed: the server is never waiting for or handling a request
\* while a configured override address is not a valid IPv4 address.
C6_InvalidOverrideNeverServing ==
    pc \in ({"recv", "dispatch"} \cup Handling) =>
        /\ OverrideOk(cfg.RESPONSE_MAPPED_IP)
        /\ OverrideOk(cfg.RESPONSE_SOURCE_IP)
        /\ OverrideOk(cfg.RESPONSE_CHANGED_IP)

\* C7 as claimed: the resolved port is the configured port if and only if
\* that lies in 0..65535, otherwise the default, and so always fits the
\* 16-bit port field.  Stated for the MAPPED-ADDRESS attribute, once resolved.
C7_ResolvedPortInRange ==
    pc \in (Handling \ {"mapped"}) =>
        /\ attributes[1].port =
               IF cfg.RESPONSE_MAPPED_PORT \in 0..65535
               THEN cfg.RESPONSE_MAPPED_PORT ELSE addr[2]
        /\ attributes[1].port \in 0..65535

FullOverride(ip, port) == ip # <<>> /\ IPv4Valid(ip) /\ port \in 0..65535

\* C8: a valid (address, port) override is returned exactly, flag true, and
\* independently of the defaults: with a full MAPPED-ADDRESS override every
\* response carries that address and port whoever the sender is, and with a
\* full CHANGED-ADDRESS override the attribute is emitted and carries it.
C8_OverrideExact ==
    /\ FullOverride(cfg.RESPONSE_MAPPED_IP, cfg.RESPONSE_MAPPED_PORT) =>
           \A i \in DOMAIN sent :
               /\ CountOfType(i, 1) = 1
               /\ \A a \in AttrsOfType(i, 1) :
                      Carries(a.value, cfg.RESPONSE_MAPPED_IP,
                              cfg.RESPONSE_MAPPED_PORT)
               /\ \A j \in DOMAIN sent :
                      AttrsOfType(i, 1) = AttrsOfType(j, 1)
    /\ FullOverride(cfg.RESPONSE_CHANGED_IP, cfg.RESPONSE_CHANGED_PORT) =>
           \A i \in DOMAIN sent :
               /\ CountOfType(i, 5) = 1
               /\ \A a \in AttrsOfType(i, 5) :
                      Carries(a.value, cfg.RESPONSE_CHANGED_IP,
                              cfg.RESPONSE_CHANGED_PORT)

\* two answered requests from different senders under a full mapped override
C8_Witness ==
    /\ FullOverride(cfg.RESPONSE_MAPPED_IP, cfg.RESPONSE_MAPPED_PORT)
    /\ FullOverride(cfg.RESPONSE_CHANGED_IP, cfg.RESPONSE_CHANGED_PORT)
    /\ Len(sent) = 2
    /\ sent[1].request.addr # sent[2].request.addr

\* C9: a recognized request is handled to completion before the next
\* recvfrom: when the server is back at recvfrom every datagram received so
\* far was either dropped or answered by exactly one sendto, while one is
\* being handled nothing has been sent for it yet, and every sendto went to
\* the sender of the request it answers.
C9_OneSendPerRequestToSender ==
    /\ pc = "recv" => Len(sent) + dropped = received
    /\ pc \in ({"dispatch"} \cup Handling) => Len(sent) + dropped = received - 1
    /\ \A i \in DOMAIN sent :
           /\ sent[i].addr = sent[i].request.addr
           /\ TypeCodeIsOne(sent[i].request.data)
           /\ \A j \in DOMAIN sent : i < j => sent[i].seq < sent[j].seq

\* two requests from different senders, answered in turn, with a mapped
\* override configured
C9_Witness ==
    /\ pc = "recv"
    /\ Len(sent) = 2
    /\ sent[1].addr # sent[2].addr
    /\ cfg.RESPONSE_MAPPED_IP # <<>>

\* C10: the attributes of a response are serialized in the order they were
\* added: MAPPED-ADDRESS (1), SOURCE-ADDRESS (4), CHANGED-ADDRESS (5) at most
\* once, and SERVER (32802) last, each of the others exactly once.
C10_AttributeOrder ==
    \A i \in DOMAIN sent :
        /\ Walk(AttrSection(sent[i].data)).ok
        /\ SentTypes(i) \in {<<1, 4, 32802>>, <<1, 4, 5, 32802>>}

C10_Witness ==
    \E i \in DOMAIN sent : SentTypes(i) = <<1, 4, 5, 32802>>

====
